---- MODULE Spec2Model ----
(***************************************************************************)
(* csv-tools: countRows and chunk of src/index.js, as a state machine.     *)
(*                                                                         *)
(* A reader delivers the bytes of a CSV file in raw chunks of any size.    *)
(* countRows decodes them, splits the decoded text at line feeds and       *)
(* counts rows; chunk groups the rows under the header and yields blocks.  *)
(* Text is a sequence of one-character strings; bytes are numbers.         *)
(***************************************************************************)
EXTENDS Integers, Sequences, FiniteSets, TLC

VARIABLES inv

vars == <<inv>>

(***************************************************************************)
(* Bounds of the model.                                                    *)
(***************************************************************************)
\* longest input, in bytes
MaxLen == 6
\* longest input of the specifications that run two invocations of
\* countRows
MaxPairLen == 5
\* longest input drawn from Utf8Bytes
MaxUtf8Len == 4
\* longest input of the specification that runs countRows and chunk side
\* by side
MaxSelectLen == 4
\* largest chunkSize option tried
MaxChunkSize == 2

\* longest input of the runs with failing reads and early stops
MaxExitsLen == 4

\* longest input of the runs checked for termination
MaxLiveLen == 3

\* longest input of two invocations that run interleaved
MaxTwoLen == 2

\* longest input, with LF line endings, of the runs that compare it with
\* its CRLF form
MaxCrLfLen == 4

\* longest input of the runs with a chunkSize that is not positive
MaxSizeLen == 5

\* The bytes an input is made of: LF, space, "a", "b".
Bytes == {10, 32, 97, 98}

\* Bytes of inputs that hold a multi-byte character: LF, "a", and the two
\* bytes 0xC3 0xA9 of the UTF-8 encoding of U+00E9 (in any order, so that
\* malformed sequences occur too).
Utf8Bytes == {10, 97, 169, 195}

\* header === null
NULL == <<"null">>

\* U+FFFD, what the decoder puts in place of a malformed sequence
REPLACEMENT == "U+FFFD"

(***************************************************************************)
(* TextDecoder (UTF-8, stream: true): a lead byte is kept until its        *)
(* continuation byte arrives, in this call or in a later one.              *)
(***************************************************************************)
IsContinuation(b) == b >= 128 /\ b <= 191

IsLead(b) == b >= 194 /\ b <= 223

CodePoint(lead, cont) == (lead % 32) * 64 + (cont % 64)

FromCodePoint(cp) ==
    CASE cp = 10 -> "\n"
      [] cp = 13 -> "\r"
      [] cp = 32 -> " "
      [] cp = 97 -> "a"
      [] cp = 98 -> "b"
      [] cp = 233 -> "U+00E9"
      [] OTHER -> REPLACEMENT

\* one byte through the decoder: the characters it produces and the lead
\* byte it keeps (0: none)
DecodeByte(pending, b) ==
    IF pending # 0
    THEN IF IsContinuation(b)
         THEN [pending |-> 0, text |-> <<FromCodePoint(CodePoint(pending, b))>>]
         ELSE IF IsLead(b)
              THEN [pending |-> b, text |-> <<REPLACEMENT>>]
              ELSE IF b <= 127
                   THEN [pending |-> 0, text |-> <<REPLACEMENT, FromCodePoint(b)>>]
                   ELSE [pending |-> 0, text |-> <<REPLACEMENT, REPLACEMENT>>]
    ELSE IF b <= 127
         THEN [pending |-> 0, text |-> <<FromCodePoint(b)>>]
         ELSE IF IsLead(b)
              THEN [pending |-> b, text |-> <<>>]
              ELSE [pending |-> 0, text |-> <<REPLACEMENT>>]

RECURSIVE decodeNoStream(_, _)
\* decoder.decode(value), without stream: true: a lead byte at the end of
\* the value is malformed input, and nothing is kept for the next call
decodeNoStream(pending, value) ==
    IF value = <<>>
    THEN [pending |-> 0, text |-> IF pending # 0 THEN <<REPLACEMENT>> ELSE <<>>]
    ELSE LET first == DecodeByte(pending, Head(value))
             rest == decodeNoStream(first.pending, Tail(value))
         IN  [pending |-> rest.pending, text |-> first.text \o rest.text]

RECURSIVE decode(_, _)
\* decoder.decode(value, { stream: true })
decode(pending, value) ==
    IF value = <<>>
    THEN [pending |-> pending, text |-> <<>>]
    ELSE LET first == DecodeByte(pending, Head(value))
             rest == decode(first.pending, Tail(value))
         IN  [pending |-> rest.pending, text |-> first.text \o rest.text]

(***************************************************************************)
(* String methods.                                                         *)
(***************************************************************************)
IsWhitespace(c) == c \in {" ", "\n", "\r", "\t"}

RECURSIVE trimStart(_)
trimStart(s) ==
    IF s # <<>> /\ IsWhitespace(Head(s)) THEN trimStart(Tail(s)) ELSE s

RECURSIVE trimEndKeepingCr(_)
\* a trimEnd for which the carriage return is no white space
trimEndKeepingCr(s) ==
    IF s # <<>> /\ IsWhitespace(s[Len(s)]) /\ s[Len(s)] # "\r"
    THEN trimEndKeepingCr(SubSeq(s, 1, Len(s) - 1))
    ELSE s

RECURSIVE trimEnd(_)
trimEnd(s) ==
    IF s # <<>> /\ IsWhitespace(s[Len(s)])
    THEN trimEnd(SubSeq(s, 1, Len(s) - 1))
    ELSE s

\* trim that leaves the trailing whitespace
trimOnlyStart(s) == trimStart(s)

\* String.prototype.trim
trim(s) == trimEnd(trimStart(s))

\* buffer.indexOf("\n"): 0-based, -1 when there is none
indexOf(s, c) ==
    IF \E k \in 1..Len(s) : s[k] = c
    THEN (CHOOSE k \in 1..Len(s) : s[k] = c /\ \A j \in 1..(k - 1) : s[j] # c) - 1
    ELSE -1

\* s.substring(from, to), 0-based, to exclusive
substring(s, from, to) == SubSeq(s, from + 1, to)

\* s.substring(from)
substringFrom(s, from) == SubSeq(s, from + 1, Len(s))

RECURSIVE join(_, _)
\* rows.join(sep)
join(rows, sep) ==
    IF rows = <<>> THEN <<>>
    ELSE IF Len(rows) = 1 THEN rows[1]
    ELSE rows[1] \o <<sep>> \o join(Tail(rows), sep)

(***************************************************************************)
(* countRows: the newline loop and the end-of-input flush.                 *)
(***************************************************************************)
RECURSIVE countLinesCountingBlank(_, _, _, _, _)
\* countLines without its test of isEmpty: blank lines are rows
countLinesCountingBlank(buffer, rowCount, isFirstRow, countHeaderRow, countEmptyRows) ==
    LET newlineIndex == indexOf(buffer, "\n")
        rest == substringFrom(buffer, newlineIndex + 1)
    IN  IF newlineIndex = -1
        THEN [buffer |-> buffer, rowCount |-> rowCount, isFirstRow |-> isFirstRow]
        ELSE IF isFirstRow
             THEN countLinesCountingBlank(rest,
                             IF countHeaderRow THEN rowCount + 1 ELSE rowCount,
                             FALSE, countHeaderRow, countEmptyRows)
             ELSE countLinesCountingBlank(rest, rowCount + 1, isFirstRow,
                             countHeaderRow, countEmptyRows)

RECURSIVE countLines(_, _, _, _, _)
\* while ((newlineIndex = buffer.indexOf("\n")) !== -1) { ... }
countLines(buffer, rowCount, isFirstRow, countHeaderRow, countEmptyRows) ==
    LET newlineIndex == indexOf(buffer, "\n")
        line == substring(buffer, 0, newlineIndex)
        rest == substringFrom(buffer, newlineIndex + 1)
        isEmpty == trim(line) = <<>>
    IN  IF newlineIndex = -1
        THEN [buffer |-> buffer, rowCount |-> rowCount, isFirstRow |-> isFirstRow]
        ELSE IF ~isEmpty \/ countEmptyRows
             THEN IF isFirstRow
                  THEN countLines(rest,
                                  IF countHeaderRow THEN rowCount + 1 ELSE rowCount,
                                  FALSE, countHeaderRow, countEmptyRows)
                  ELSE countLines(rest, rowCount + 1, isFirstRow,
                                  countHeaderRow, countEmptyRows)
             ELSE countLines(rest, rowCount, isFirstRow,
                             countHeaderRow, countEmptyRows)

\* countFlush without its test of countHeaderRow: a header that is the
\* unterminated final fragment is never counted
countFlushNeverHeader(buffer, rowCount, isFirstRow, countHeaderRow, countEmptyRows) ==
    LET isEmpty == trim(buffer) = <<>>
    IN  IF Len(buffer) > 0 /\ (~isEmpty \/ countEmptyRows) /\ ~isFirstRow
        THEN rowCount + 1
        ELSE rowCount

\* if (buffer.length > 0) { ... } after the read loop of countRows
countFlush(buffer, rowCount, isFirstRow, countHeaderRow, countEmptyRows) ==
    LET isEmpty == trim(buffer) = <<>>
    IN  IF Len(buffer) > 0
           /\ (~isEmpty \/ countEmptyRows)
           /\ (~isFirstRow \/ countHeaderRow)
        THEN rowCount + 1
        ELSE rowCount

(***************************************************************************)
(* chunk: the newline loop up to its next yield, the end-of-input flush    *)
(* and the text of a block.                                                *)
(***************************************************************************)
\* header + "\n" + currentChunk.join("\n")
blockText(header, currentChunk) == header \o <<"\n">> \o join(currentChunk, "\n")

RECURSIVE chunkLinesSkippingBlank(_, _, _, _, _)
\* chunkLines whose test of isEmpty leaves out includeEmptyRows: blank
\* lines are always skipped
chunkLinesSkippingBlank(buffer, header, currentChunk, chunkSize, includeEmptyRows) ==
    LET newlineIndex == indexOf(buffer, "\n")
        line == substring(buffer, 0, newlineIndex)
        rest == substringFrom(buffer, newlineIndex + 1)
        isEmpty == trim(line) = <<>>
        pushed == Append(currentChunk, trim(line))
    IN  IF newlineIndex = -1
        THEN [buffer |-> buffer, header |-> header,
              currentChunk |-> currentChunk, yields |-> FALSE]
        ELSE IF isEmpty
             THEN chunkLinesSkippingBlank(rest, header, currentChunk,
                                          chunkSize, includeEmptyRows)
             ELSE IF header = NULL
                  THEN chunkLinesSkippingBlank(rest, trim(line), currentChunk,
                                               chunkSize, includeEmptyRows)
                  ELSE IF Len(pushed) = chunkSize
                       THEN [buffer |-> rest, header |-> header,
                             currentChunk |-> pushed, yields |-> TRUE]
                       ELSE chunkLinesSkippingBlank(rest, header, pushed,
                                                    chunkSize, includeEmptyRows)

RECURSIVE chunkLinesYieldingLate(_, _, _, _, _)
\* the newline loop with its yield one row late
chunkLinesYieldingLate(buffer, header, currentChunk, chunkSize, includeEmptyRows) ==
    LET newlineIndex == indexOf(buffer, "\n")
        line == substring(buffer, 0, newlineIndex)
        rest == substringFrom(buffer, newlineIndex + 1)
        isEmpty == trim(line) = <<>>
        pushed == Append(currentChunk, trim(line))
    IN  IF newlineIndex = -1
        THEN [buffer |-> buffer, header |-> header,
              currentChunk |-> currentChunk, yields |-> FALSE]
        ELSE IF isEmpty /\ ~includeEmptyRows
             THEN chunkLinesYieldingLate(rest, header, currentChunk,
                                         chunkSize, includeEmptyRows)
             ELSE IF header = NULL
                  THEN chunkLinesYieldingLate(rest, trim(line), currentChunk,
                                              chunkSize, includeEmptyRows)
                  ELSE IF Len(pushed) = chunkSize + 1
                       THEN [buffer |-> rest, header |-> header,
                             currentChunk |-> pushed, yields |-> TRUE]
                       ELSE chunkLinesYieldingLate(rest, header, pushed,
                                                   chunkSize, includeEmptyRows)

RECURSIVE chunkLinesYieldingAtLeast(_, _, _, _, _)
\* the newline loop with >= in place of === in the test of the group length
chunkLinesYieldingAtLeast(buffer, header, currentChunk, chunkSize, includeEmptyRows) ==
    LET newlineIndex == indexOf(buffer, "\n")
        line == substring(buffer, 0, newlineIndex)
        rest == substringFrom(buffer, newlineIndex + 1)
        isEmpty == trim(line) = <<>>
        pushed == Append(currentChunk, trim(line))
    IN  IF newlineIndex = -1
        THEN [buffer |-> buffer, header |-> header,
              currentChunk |-> currentChunk, yields |-> FALSE]
        ELSE IF isEmpty /\ ~includeEmptyRows
             THEN chunkLinesYieldingAtLeast(rest, header, currentChunk,
                                            chunkSize, includeEmptyRows)
             ELSE IF header = NULL
                  THEN chunkLinesYieldingAtLeast(rest, trim(line), currentChunk,
                                                 chunkSize, includeEmptyRows)
                  ELSE IF Len(pushed) >= chunkSize
                       THEN [buffer |-> rest, header |-> header,
                             currentChunk |-> pushed, yields |-> TRUE]
                       ELSE chunkLinesYieldingAtLeast(rest, header, pushed,
                                                      chunkSize, includeEmptyRows)

RECURSIVE chunkLines(_, _, _, _, _)
\* while ((newlineIndex = buffer.indexOf("\n")) !== -1) { ... }, run until
\* the loop ends (yields = FALSE) or reaches its yield (yields = TRUE)
chunkLines(buffer, header, currentChunk, chunkSize, includeEmptyRows) ==
    LET newlineIndex == indexOf(buffer, "\n")
        line == substring(buffer, 0, newlineIndex)
        rest == substringFrom(buffer, newlineIndex + 1)
        isEmpty == trim(line) = <<>>
        pushed == Append(currentChunk, trim(line))
    IN  IF newlineIndex = -1
        THEN [buffer |-> buffer, header |-> header,
              currentChunk |-> currentChunk, yields |-> FALSE]
        ELSE IF isEmpty /\ ~includeEmptyRows
             THEN chunkLines(rest, header, currentChunk, chunkSize, includeEmptyRows)
             ELSE IF header = NULL
                  THEN chunkLines(rest, trim(line), currentChunk,
                                  chunkSize, includeEmptyRows)
                  ELSE IF Len(pushed) = chunkSize
                       THEN [buffer |-> rest, header |-> header,
                             currentChunk |-> pushed, yields |-> TRUE]
                       ELSE chunkLines(rest, header, pushed,
                                       chunkSize, includeEmptyRows)

\* chunkFlush that drops the unterminated final fragment
chunkFlushNothing(buffer, header, currentChunk, includeEmptyRows) ==
    [header |-> header, currentChunk |-> currentChunk]

\* if (buffer.length > 0) { ... } after the read loop of chunk
chunkFlush(buffer, header, currentChunk, includeEmptyRows) ==
    LET isEmpty == trim(buffer) = <<>>
        keep == Len(buffer) > 0 /\ (~isEmpty \/ includeEmptyRows)
    IN  IF header = NULL
        THEN [header |-> IF keep THEN trim(buffer) ELSE header,
              currentChunk |-> currentChunk]
        ELSE [header |-> header,
              currentChunk |-> IF keep THEN Append(currentChunk, trim(buffer))
                               ELSE currentChunk]

(***************************************************************************)
(* The state: one record per invocation of countRows or chunk.             *)
(*   input, pos        the reader: the bytes of the file, how many of      *)
(*                     them it has delivered                               *)
(*   pending, buffer   the decoder's kept lead byte, the line buffer       *)
(*   rowCount, isFirstRow              locals of countRows                 *)
(*   header, currentChunk, yielded     locals of chunk, blocks delivered   *)
(*   failed, released  a read of the reader rejected; the reader's lock    *)
(*                     was released                                        *)
(*   pc                where the invocation is                             *)
(***************************************************************************)
BytesUpTo(alphabet, n) == UNION {[1..k -> alphabet] : k \in 0..n}

Inputs == BytesUpTo(Bytes, MaxLen)

ChunkSizes == 1..MaxChunkSize

\* the state of an invocation right after the call; failed: a read() of the
\* reader has rejected; released: the reader's lock has been released (the
\* caller passes the reader in locked, and no statement of the source
\* releases or cancels it)
Call(op, input, countHeaderRow, countEmptyRows, chunkSize, includeEmptyRows) ==
    [op |-> op, input |-> input, pos |-> 0,
     countHeaderRow |-> countHeaderRow, countEmptyRows |-> countEmptyRows,
     chunkSize |-> chunkSize, includeEmptyRows |-> includeEmptyRows,
     pending |-> 0, buffer |-> <<>>,
     rowCount |-> 0, isFirstRow |-> TRUE,
     header |-> NULL, currentChunk |-> <<>>, yielded |-> <<>>,
     failed |-> FALSE, released |-> FALSE,
     pc |-> IF op = "countRows" THEN "read" ELSE "start"]

\* countRows(reader, options)
CallCountRows(input, countHeaderRow, countEmptyRows) ==
    Call("countRows", input, countHeaderRow, countEmptyRows, 100, FALSE)

\* chunk(reader, options)
CallChunk(input, chunkSize, includeEmptyRows) ==
    Call("chunk", input, FALSE, FALSE, chunkSize, includeEmptyRows)

CountRowsCalls(inputs) ==
    {CallCountRows(input, h, e) : input \in inputs, h \in BOOLEAN, e \in BOOLEAN}

ChunkCalls(inputs) ==
    {CallChunk(input, k, e) : input \in inputs, k \in ChunkSizes, e \in BOOLEAN}

\* one invocation of countRows, on any input with any options
InitCountRows == inv \in [{1} -> CountRowsCalls(Inputs)]

\* one invocation of chunk, on any input with any options
InitChunk == inv \in [{1} -> ChunkCalls(Inputs)]

\* two invocations of countRows on the same input, the first with the
\* default options, the second with countHeaderRow: true
InitHeaderPair ==
    \E input \in BytesUpTo(Bytes, MaxPairLen) :
        inv = (1 :> CallCountRows(input, FALSE, FALSE))
              @@ (2 :> CallCountRows(input, TRUE, FALSE))

\* countRows and chunk on the same input, with the same setting of the
\* empty-row flag
InitSelectPair ==
    \E input \in BytesUpTo(Bytes, MaxSelectLen), k \in ChunkSizes, e \in BOOLEAN :
        inv = (1 :> CallCountRows(input, FALSE, e)) @@ (2 :> CallChunk(input, k, e))

\* a run of n line feeds
LineFeeds(n) == [k \in 1..n |-> 10]

\* two invocations of countRows with the same options, the second on the
\* input of the first with a run of line feeds appended
InitTrailingPair ==
    \E input \in BytesUpTo(Bytes, MaxPairLen), n \in 1..MaxPairLen,
       h \in BOOLEAN, e \in BOOLEAN :
        /\ Len(input) + n <= MaxPairLen
        /\ inv = (1 :> CallCountRows(input, h, e))
                 @@ (2 :> CallCountRows(input \o LineFeeds(n), h, e))

\* one invocation of either, on any input with any options
InitExits ==
    inv \in [{1} -> CountRowsCalls(BytesUpTo(Bytes, MaxExitsLen))
                       \cup ChunkCalls(BytesUpTo(Bytes, MaxExitsLen))]

\* one invocation of either, on any input with any options
InitLive ==
    inv \in [{1} -> CountRowsCalls(BytesUpTo(Bytes, MaxLiveLen))
                       \cup ChunkCalls(BytesUpTo(Bytes, MaxLiveLen))]

\* two invocations, each of either operation, each on a reader of its own
\* with options of its own
InitTwo ==
    inv \in [{1, 2} -> CountRowsCalls(BytesUpTo({10, 97}, MaxTwoLen))
                          \cup ChunkCalls(BytesUpTo({10, 97}, MaxTwoLen))]

RECURSIVE ToCrLf(_)
\* the bytes of an input with every line feed preceded by a carriage return
ToCrLf(input) ==
    IF input = <<>> THEN <<>>
    ELSE (IF Head(input) = 10 THEN <<13, 10>> ELSE <<Head(input)>>)
         \o ToCrLf(Tail(input))

\* two invocations of the same operation with the same options, the first
\* on an input with LF line endings, the second on its CRLF form
InitCrLfPair ==
    \E input \in BytesUpTo({10, 32, 97}, MaxCrLfLen) :
        \/ \E h \in BOOLEAN, e \in BOOLEAN :
              inv = (1 :> CallCountRows(input, h, e))
                    @@ (2 :> CallCountRows(ToCrLf(input), h, e))
        \/ \E k \in ChunkSizes, e \in BOOLEAN :
              inv = (1 :> CallChunk(input, k, e))
                    @@ (2 :> CallChunk(ToCrLf(input), k, e))

\* one invocation of chunk with a chunkSize that is negative, zero or
\* positive: options.chunkSize is not validated
InitAnySize ==
    \E input \in BytesUpTo(Bytes, MaxSizeLen), k \in -1..1, e \in BOOLEAN :
        inv = (1 :> CallChunk(input, k, e))

\* one invocation of either, on an input that may hold multi-byte characters
InitUtf8 ==
    inv \in [{1} -> CountRowsCalls(BytesUpTo(Utf8Bytes, MaxUtf8Len))
                       \cup ChunkCalls(BytesUpTo(Utf8Bytes, MaxUtf8Len))]

(***************************************************************************)
(* countRows                                                               *)
(***************************************************************************)
\* the body of the read loop for one value: lines 41-65
countRowsOnValue(r, value) ==
    LET decoded == decode(r.pending, value)
        after == countLines(r.buffer \o decoded.text, r.rowCount,
                            r.isFirstRow, r.countHeaderRow, r.countEmptyRows)
    IN  [r EXCEPT !.pos = r.pos + Len(value),
                  !.pending = decoded.pending,
                  !.buffer = after.buffer,
                  !.rowCount = after.rowCount,
                  !.isFirstRow = after.isFirstRow]

\* the return without the flush of lines 68-77
countRowsOnDoneSkippingFlush(r) == [r EXCEPT !.pc = "returned"]

\* end-of-input after which the loop would go on reading
countRowsOnDoneReadingOn(r) ==
    [r EXCEPT !.rowCount = countFlush(r.buffer, r.rowCount, r.isFirstRow,
                                      r.countHeaderRow, r.countEmptyRows)]

\* after the read loop: lines 68-79
countRowsOnDone(r) ==
    [r EXCEPT !.rowCount = countFlush(r.buffer, r.rowCount, r.isFirstRow,
                                      r.countHeaderRow, r.countEmptyRows),
              !.pc = "returned"]

\* the next n bytes of the reader
NextBytes(r, n) == SubSeq(r.input, r.pos + 1, r.pos + n)

\* a read of countRows whose buffer is one variable shared by all the
\* invocations
CountRowsReadSharedBuffer(i) ==
    /\ inv[i].op = "countRows"
    /\ inv[i].pc = "read"
    /\ \E n \in 0..(Len(inv[i].input) - inv[i].pos) :
          LET after == countRowsOnValue(inv[i], NextBytes(inv[i], n))
          IN  inv' = [j \in DOMAIN inv |->
                         IF j = i THEN after
                         ELSE [inv[j] EXCEPT !.buffer = after.buffer]]

\* reader.read() resolves with { done: false, value }, a chunk of any size
CountRowsRead(i) ==
    /\ inv[i].op = "countRows"
    /\ inv[i].pc = "read"
    /\ \E n \in 0..(Len(inv[i].input) - inv[i].pos) :
          inv' = [inv EXCEPT ![i] = countRowsOnValue(inv[i], NextBytes(inv[i], n))]

\* reader.read() resolves with { done: true }
CountRowsDone(i) ==
    /\ inv[i].op = "countRows"
    /\ inv[i].pc = "read"
    /\ inv[i].pos = Len(inv[i].input)
    /\ inv' = [inv EXCEPT ![i] = countRowsOnDone(inv[i])]

(***************************************************************************)
(* chunk                                                                   *)
(***************************************************************************)
RECURSIVE chunkAfterLinesEager(_, _, _)
\* a generator that does not suspend at the yield of line 124: it hands out
\* the block and goes on to the next read
chunkAfterLinesEager(r, buffer, currentChunk) ==
    LET after == chunkLines(buffer, r.header, currentChunk,
                            r.chunkSize, r.includeEmptyRows)
    IN  IF after.yields
        THEN chunkAfterLinesEager(
                 [r EXCEPT !.header = after.header,
                           !.yielded = Append(r.yielded,
                                              blockText(after.header,
                                                        after.currentChunk))],
                 after.buffer, <<>>)
        ELSE [r EXCEPT !.buffer = after.buffer,
                       !.header = after.header,
                       !.currentChunk = after.currentChunk,
                       !.pc = "read"]

\* the generator after its newline loop ran from the given buffer and group
\* to its yield (line 124) or to its end
chunkAfterLines(r, buffer, currentChunk) ==
    LET after == chunkLines(buffer, r.header, currentChunk,
                            r.chunkSize, r.includeEmptyRows)
    IN  [r EXCEPT !.buffer = after.buffer,
                  !.header = after.header,
                  !.currentChunk = after.currentChunk,
                  !.yielded = IF after.yields
                              THEN Append(r.yielded,
                                          blockText(after.header, after.currentChunk))
                              ELSE r.yielded,
                  !.pc = IF after.yields THEN "yield" ELSE "read"]

\* the body of the read loop for one value, up to its yield: lines 99-128
chunkOnValue(r, value) ==
    LET decoded == decode(r.pending, value)
    IN  chunkAfterLines([r EXCEPT !.pos = r.pos + Len(value),
                                  !.pending = decoded.pending],
                        r.buffer \o decoded.text, r.currentChunk)

\* resumed at the yield with the buffer emptied as well
chunkOnResumeDroppingBuffer(r) == chunkAfterLines(r, <<>>, <<>>)

\* resumed at the yield and gone straight to the next read, the lines left
\* in the buffer not looked at
chunkOnResumeSkippingLoop(r) == [r EXCEPT !.currentChunk = <<>>, !.pc = "read"]

\* resumed at the yield without currentChunk = []
chunkOnResumeKeepingRows(r) == chunkAfterLines(r, r.buffer, r.currentChunk)

\* resumed at the yield of the loop: lines 125-128
chunkOnResume(r) == chunkAfterLines(r, r.buffer, <<>>)

\* the final yield without the test of currentChunk.length
chunkOnDoneAnyGroup(r) ==
    LET flushed == chunkFlush(r.buffer, r.header, r.currentChunk,
                              r.includeEmptyRows)
        last == flushed.header # NULL
    IN  [r EXCEPT !.header = flushed.header,
                  !.currentChunk = flushed.currentChunk,
                  !.yielded = IF last
                              THEN Append(r.yielded,
                                          blockText(flushed.header,
                                                    flushed.currentChunk))
                              ELSE r.yielded,
                  !.pc = IF last THEN "finalYield" ELSE "done"]

\* after the read loop, up to the final yield: lines 131-149
chunkOnDone(r) ==
    LET flushed == chunkFlush(r.buffer, r.header, r.currentChunk,
                              r.includeEmptyRows)
        last == Len(flushed.currentChunk) > 0 /\ flushed.header # NULL
    IN  [r EXCEPT !.header = flushed.header,
                  !.currentChunk = flushed.currentChunk,
                  !.yielded = IF last
                              THEN Append(r.yielded,
                                          blockText(flushed.header,
                                                    flushed.currentChunk))
                              ELSE r.yielded,
                  !.pc = IF last THEN "finalYield" ELSE "done"]

\* the consumer's first next(): the generator runs to its first read
ChunkStart(i) ==
    /\ inv[i].op = "chunk"
    /\ inv[i].pc = "start"
    /\ inv' = [inv EXCEPT ![i].pc = "read"]

\* reader.read() resolves with { done: false, value }, a chunk of any size
ChunkRead(i) ==
    /\ inv[i].op = "chunk"
    /\ inv[i].pc = "read"
    /\ \E n \in 0..(Len(inv[i].input) - inv[i].pos) :
          inv' = [inv EXCEPT ![i] = chunkOnValue(inv[i], NextBytes(inv[i], n))]

\* the consumer's next() while the generator is suspended at the yield of
\* the loop
ChunkResume(i) ==
    /\ inv[i].op = "chunk"
    /\ inv[i].pc = "yield"
    /\ inv' = [inv EXCEPT ![i] = chunkOnResume(inv[i])]

\* reader.read() resolves with { done: true }
ChunkDone(i) ==
    /\ inv[i].op = "chunk"
    /\ inv[i].pc = "read"
    /\ inv[i].pos = Len(inv[i].input)
    /\ inv' = [inv EXCEPT ![i] = chunkOnDone(inv[i])]

\* the consumer's next() while the generator is suspended at the final
\* yield: the generator returns
ChunkFinish(i) ==
    /\ inv[i].op = "chunk"
    /\ inv[i].pc = "finalYield"
    /\ inv' = [inv EXCEPT ![i].pc = "done"]

(***************************************************************************)
(* Failing reads and early stops                                           *)
(***************************************************************************)
\* reader.read() rejects at line 15: the error leaves makeReaderIterable and
\* the for await of line 41, and the promise of countRows rejects
countRowsOnReadError(r) == [r EXCEPT !.failed = TRUE, !.pc = "rejected"]

\* a rejected read() after which the loop would go on reading
chunkOnReadErrorRetrying(r) == [r EXCEPT !.failed = TRUE]

\* reader.read() rejects at line 15: the error leaves makeReaderIterable and
\* the for await of line 98, the pending next() rejects and the generator
\* is completed
chunkOnReadError(r) == [r EXCEPT !.failed = TRUE, !.pc = "threw"]

\* a return() that flushes what the generator holds into a last block
chunkOnReturnFlushing(r) == [chunkOnDone(r) EXCEPT !.pc = "stopped"]

\* the consumer's return(): the generator completes where it is suspended
\* (and with it makeReaderIterable, suspended at line 22)
chunkOnReturn(r) == [r EXCEPT !.pc = "stopped"]

\* reader.read() rejects
CountRowsReadError(i) ==
    /\ inv[i].op = "countRows"
    /\ inv[i].pc = "read"
    /\ inv' = [inv EXCEPT ![i] = countRowsOnReadError(inv[i])]

\* reader.read() rejects
ChunkReadError(i) ==
    /\ inv[i].op = "chunk"
    /\ inv[i].pc = "read"
    /\ inv' = [inv EXCEPT ![i] = chunkOnReadError(inv[i])]

\* the consumer stops early (break in a for await, or return()) while the
\* generator is suspended
ChunkReturn(i) ==
    /\ inv[i].op = "chunk"
    /\ inv[i].pc \in {"start", "yield", "finalYield"}
    /\ inv' = [inv EXCEPT ![i] = chunkOnReturn(inv[i])]

\* the consumer's next() on the completed generator: { done: true }, and
\* nothing of the body runs; after a throw the generator is exhausted
ChunkPullEnded(i) ==
    /\ inv[i].op = "chunk"
    /\ inv[i].pc \in {"done", "threw", "stopped", "exhausted"}
    /\ inv' = [inv EXCEPT ![i].pc = IF inv[i].pc = "threw" THEN "exhausted"
                                    ELSE inv[i].pc]

NextCountRows ==
    \E i \in DOMAIN inv :
        \/ CountRowsRead(i)
        \/ CountRowsDone(i)

NextChunk ==
    \E i \in DOMAIN inv :
        \/ ChunkStart(i)
        \/ ChunkRead(i)
        \/ ChunkResume(i)
        \/ ChunkDone(i)
        \/ ChunkFinish(i)

Next ==
    \E i \in DOMAIN inv :
        \/ CountRowsRead(i)
        \/ CountRowsDone(i)
        \/ ChunkStart(i)
        \/ ChunkRead(i)
        \/ ChunkResume(i)
        \/ ChunkDone(i)
        \/ ChunkFinish(i)

NextExits ==
    \E i \in DOMAIN inv :
        \/ CountRowsRead(i)
        \/ CountRowsDone(i)
        \/ CountRowsReadError(i)
        \/ ChunkStart(i)
        \/ ChunkRead(i)
        \/ ChunkResume(i)
        \/ ChunkDone(i)
        \/ ChunkFinish(i)
        \/ ChunkReadError(i)
        \/ ChunkReturn(i)
        \/ ChunkPullEnded(i)

\* one invocation of countRows
SpecCountRows == InitCountRows /\ [][NextCountRows]_vars

\* one invocation of chunk
SpecChunk == InitChunk /\ [][NextChunk]_vars

\* one invocation of either, on bytes that hold multi-byte characters
SpecUtf8 == InitUtf8 /\ [][Next]_vars

\* two invocations of countRows, with and without countHeaderRow
SpecHeaderPair == InitHeaderPair /\ [][NextCountRows]_vars

\* one invocation of either, with failing reads and early stops
SpecExits == InitExits /\ [][NextExits]_vars

\* the reader delivers its bytes in finitely many values and then reports
\* the end (a read that delivers no byte changes nothing and is no
\* progress), every settled promise is taken up, and the consumer of chunk
\* goes on calling next()
Fairness ==
    /\ WF_vars(CountRowsRead(1))
    /\ WF_vars(CountRowsDone(1))
    /\ WF_vars(ChunkStart(1))
    /\ WF_vars(ChunkRead(1))
    /\ WF_vars(ChunkResume(1))
    /\ WF_vars(ChunkDone(1))
    /\ WF_vars(ChunkFinish(1))

\* one invocation of either, on a reader that ends and with a consumer that
\* keeps pulling
SpecLive == InitLive /\ [][Next]_vars /\ Fairness

\* two invocations whose steps interleave in any order
SpecTwo == InitTwo /\ [][Next]_vars

\* the same call on an input and on its CRLF form
SpecCrLfPair == InitCrLfPair /\ [][Next]_vars

\* one invocation of chunk, chunkSize of any sign
SpecAnySize == InitAnySize /\ [][NextChunk]_vars

(***************************************************************************)
(* What the input is, read as a whole: its text, its lines, its rows.      *)
(***************************************************************************)
\* the text of the input
Text(input) == decode(0, input).text

RECURSIVE LinesOf(_)
\* the lines of a text: the runs between line feeds, and the unterminated
\* final fragment if there is one
LinesOf(text) ==
    IF text = <<>> THEN <<>>
    ELSE IF \A k \in 1..Len(text) : text[k] # "\n" THEN <<text>>
    ELSE LET k == CHOOSE k \in 1..Len(text) :
                     text[k] = "\n" /\ \A j \in 1..(k - 1) : text[j] # "\n"
         IN  <<SubSeq(text, 1, k - 1)>> \o LinesOf(SubSeq(text, k + 1, Len(text)))

IsBlank(line) == \A k \in 1..Len(line) : IsWhitespace(line[k])

\* a line without its leading and trailing whitespace
Trimmed(line) ==
    IF IsBlank(line) THEN <<>>
    ELSE LET solid == {k \in 1..Len(line) : ~IsWhitespace(line[k])}
             first == CHOOSE k \in solid : \A j \in solid : k <= j
             last == CHOOSE k \in solid : \A j \in solid : k >= j
         IN  SubSeq(line, first, last)

NonBlankLines(text) == SelectSeq(LinesOf(text), LAMBDA line : ~IsBlank(line))

\* the non-blank lines after the first non-blank line
DataLines(text) ==
    IF NonBlankLines(text) = <<>> THEN <<>> ELSE Tail(NonBlankLines(text))

Returned(r) == r.op = "countRows" /\ r.pc = "returned"

Defaults(r) == ~r.countHeaderRow /\ ~r.countEmptyRows

(***************************************************************************)
(* C1: with the default options countRows returns the number of non-blank  *)
(* lines after the first non-blank line of the input, however the input    *)
(* is split into raw chunks; the unterminated final fragment is a line.    *)
(***************************************************************************)
C1_DefaultCountIsDataLines ==
    \A i \in DOMAIN inv :
        Returned(inv[i]) /\ Defaults(inv[i])
            => inv[i].rowCount = Len(DataLines(Text(inv[i].input)))

\* countRows has returned 2 for an input with a blank line in the middle
\* and an unterminated last row
C1_Witness ==
    \E i \in DOMAIN inv :
        /\ Returned(inv[i]) /\ Defaults(inv[i])
        /\ inv[i].rowCount = 2
        /\ inv[i].input # <<>>
        /\ inv[i].input[Len(inv[i].input)] # 10
        /\ \E k \in 1..Len(LinesOf(Text(inv[i].input))) :
              IsBlank(LinesOf(Text(inv[i].input))[k])

(***************************************************************************)
(* C2: on the same input, countRows with countHeaderRow: true returns one  *)
(* more than countRows with the defaults when the input has a non-blank    *)
(* line, and both return 0 when it has none.                               *)
(***************************************************************************)
C2_HeaderAddsOne ==
    \A i, j \in DOMAIN inv :
        /\ Returned(inv[i]) /\ Returned(inv[j])
        /\ inv[i].input = inv[j].input
        /\ Defaults(inv[i])
        /\ inv[j].countHeaderRow /\ ~inv[j].countEmptyRows
        => IF NonBlankLines(Text(inv[i].input)) # <<>>
           THEN inv[j].rowCount = inv[i].rowCount + 1
           ELSE inv[i].rowCount = 0 /\ inv[j].rowCount = 0

\* both have returned for an input whose only line is an unterminated header
C2_Witness ==
    /\ DOMAIN inv = {1, 2}
    /\ Returned(inv[1]) /\ Returned(inv[2])
    /\ Len(LinesOf(Text(inv[1].input))) = 1
    /\ NonBlankLines(Text(inv[1].input)) # <<>>
    /\ inv[1].input[Len(inv[1].input)] # 10
    /\ inv[1].rowCount = 0 /\ inv[2].rowCount = 1

(***************************************************************************)
(* The run of an invocation whose reader delivers the whole input as one   *)
(* raw chunk.                                                              *)
(***************************************************************************)
RECURSIVE Drained(_)
\* the generator resumed at each yield of its loop until it reads again
Drained(r) == IF r.pc = "yield" THEN Drained(chunkOnResume(r)) ELSE r

OneChunkRun(r) ==
    LET called == Call(r.op, r.input, r.countHeaderRow, r.countEmptyRows,
                       r.chunkSize, r.includeEmptyRows)
    IN  IF r.op = "countRows"
        THEN countRowsOnDone(countRowsOnValue(called, r.input))
        ELSE chunkOnDone(Drained(chunkOnValue(called, r.input)))

Finished(r) == r.pc \in {"returned", "done"}

(***************************************************************************)
(* C3: the count returned by countRows and the blocks yielded by chunk do  *)
(* not depend on how the bytes of the input are split into raw chunks:     *)
(* every split gives what the input delivered as one chunk gives, also     *)
(* when a line or a multi-byte character is cut by a chunk boundary.       *)
(***************************************************************************)
C3_SplitIndependent ==
    \A i \in DOMAIN inv :
        Finished(inv[i])
            => /\ inv[i].rowCount = OneChunkRun(inv[i]).rowCount
               /\ inv[i].yielded = OneChunkRun(inv[i]).yielded

\* an invocation waits for its next raw chunk while the decoder holds the
\* first byte of a two-byte character and the buffer holds the start of
\* the line: the chunk boundary cuts the character and the line
C3_Witness ==
    \E i \in DOMAIN inv :
        /\ inv[i].pc = "read"
        /\ inv[i].pending = 195
        /\ inv[i].pos < Len(inv[i].input)
        /\ inv[i].input[inv[i].pos + 1] = 169
        /\ inv[i].buffer # <<>>

(***************************************************************************)
(* What a block is made of.                                                *)
(***************************************************************************)
RECURSIVE SplitAtLf(_)
\* block.split("\n"): the pieces between line feeds, at least one
SplitAtLf(text) ==
    IF \A k \in 1..Len(text) : text[k] # "\n" THEN <<text>>
    ELSE LET k == CHOOSE k \in 1..Len(text) :
                     text[k] = "\n" /\ \A j \in 1..(k - 1) : text[j] # "\n"
         IN  <<SubSeq(text, 1, k - 1)>> \o SplitAtLf(SubSeq(text, k + 1, Len(text)))

\* the rows of a block: its lines after the header line
RowsOf(block) == Tail(SplitAtLf(block))

RECURSIVE AllRows(_)
\* the rows of a sequence of blocks, in order
AllRows(blocks) ==
    IF blocks = <<>> THEN <<>> ELSE RowsOf(Head(blocks)) \o AllRows(Tail(blocks))

IsPrefix(p, text) == Len(p) <= Len(text) /\ SubSeq(text, 1, Len(p)) = p

(***************************************************************************)
(* C4: for a positive chunkSize k, no block yielded by chunk has more than *)
(* k rows after its header line, every block but the last has exactly k    *)
(* rows, and the last has between 1 and k.                                 *)
(***************************************************************************)
C4_BlockSizes ==
    \A i \in DOMAIN inv :
        \A b \in 1..Len(inv[i].yielded) :
            LET rows == Len(RowsOf(inv[i].yielded[b]))
            IN  /\ 1 <= rows
                /\ rows <= inv[i].chunkSize
                /\ b < Len(inv[i].yielded) => rows = inv[i].chunkSize

\* chunk has ended after a full block of two rows and a last block of one
C4_Witness ==
    \E i \in DOMAIN inv :
        /\ inv[i].op = "chunk" /\ inv[i].pc = "done"
        /\ inv[i].chunkSize = 2
        /\ Len(inv[i].yielded) = 2
        /\ Len(RowsOf(inv[i].yielded[1])) = 2
        /\ Len(RowsOf(inv[i].yielded[2])) = 1

(***************************************************************************)
(* C5: with the default includeEmptyRows, the rows of the yielded blocks,  *)
(* in yield order, are the trimmed non-blank lines after the first         *)
(* non-blank line of the input, in input order: none lost, none twice.     *)
(***************************************************************************)
C5_RowsAreDataLines ==
    \A i \in DOMAIN inv :
        inv[i].op = "chunk" /\ inv[i].pc = "done" /\ ~inv[i].includeEmptyRows
            => LET data == DataLines(Text(inv[i].input))
               IN  AllRows(inv[i].yielded) = [k \in 1..Len(data) |-> Trimmed(data[k])]

\* chunk has ended after two blocks of one row each, the rows differ, and
\* the second row is an unterminated final fragment that trimming shortened
C5_Witness ==
    \E i \in DOMAIN inv :
        /\ inv[i].op = "chunk" /\ inv[i].pc = "done" /\ ~inv[i].includeEmptyRows
        /\ Len(inv[i].yielded) = 2
        /\ AllRows(inv[i].yielded)[1] # AllRows(inv[i].yielded)[2]
        /\ inv[i].input[Len(inv[i].input)] # 10
        /\ LET data == DataLines(Text(inv[i].input))
           IN  Trimmed(data[2]) # data[2]

(***************************************************************************)
(* C6: every block yielded by chunk begins with the header and a line      *)
(* feed, the header being the trimmed first non-blank line of the input.   *)
(***************************************************************************)
C6_BlocksBeginWithHeader ==
    \A i \in DOMAIN inv :
        \A b \in 1..Len(inv[i].yielded) :
            NonBlankLines(Text(inv[i].input)) # <<>>
                => IsPrefix(Trimmed(NonBlankLines(Text(inv[i].input))[1]) \o <<"\n">>,
                            inv[i].yielded[b])

\* countRows and chunk on the same input
SpecSelectPair == InitSelectPair /\ [][Next]_vars

\* countRows on an input and on the input followed by line feeds
SpecTrailingPair == InitTrailingPair /\ [][NextCountRows]_vars

(***************************************************************************)
(* C7: on the same input, for both values b of the empty-row flag, the     *)
(* blocks yielded by chunk with includeEmptyRows = b hold as many rows in  *)
(* all as countRows returns with countHeaderRow false, countEmptyRows = b. *)
(***************************************************************************)
C7_ChunkRowsAreCountedRows ==
    \A i, j \in DOMAIN inv :
        /\ Returned(inv[i]) /\ ~inv[i].countHeaderRow
        /\ inv[j].op = "chunk" /\ inv[j].pc = "done"
        /\ inv[j].input = inv[i].input
        /\ inv[j].includeEmptyRows = inv[i].countEmptyRows
        => Len(AllRows(inv[j].yielded)) = inv[i].rowCount

\* both have ended on an input with a blank line before the header, a blank
\* row after it and an unterminated last row, the flag being true
C7_Witness ==
    /\ DOMAIN inv = {1, 2}
    /\ Returned(inv[1]) /\ inv[2].pc = "done"
    /\ inv[1].countEmptyRows
    /\ inv[1].rowCount = 3
    /\ Len(inv[2].yielded) >= 2
    /\ inv[1].input[1] = 10
    /\ inv[1].input[Len(inv[1].input)] # 10

(***************************************************************************)
(* C8: appending a run of one or more line feeds to the input never makes  *)
(* countRows return more than it returns for the input without them,       *)
(* under every setting of countHeaderRow and countEmptyRows.               *)
(***************************************************************************)
C8_TrailingLineFeedsAddNothing ==
    \A i, j \in DOMAIN inv :
        /\ Returned(inv[i]) /\ Returned(inv[j])
        /\ inv[i].countHeaderRow = inv[j].countHeaderRow
        /\ inv[i].countEmptyRows = inv[j].countEmptyRows
        /\ \E n \in 1..Len(inv[j].input) :
              inv[j].input = inv[i].input \o LineFeeds(n)
        => inv[j].rowCount <= inv[i].rowCount

(***************************************************************************)
(* What countRows is to return: the header is the first non-blank line,    *)
(* the blank lines before it are dropped, each non-blank line after it is  *)
(* a data row and each blank line after it is a blank row.                 *)
(***************************************************************************)
\* the lines from the first non-blank line on
FromHeader(lines) ==
    IF \A k \in 1..Len(lines) : IsBlank(lines[k]) THEN <<>>
    ELSE LET h == CHOOSE k \in 1..Len(lines) :
                     ~IsBlank(lines[k]) /\ \A j \in 1..(k - 1) : IsBlank(lines[j])
         IN  SubSeq(lines, h, Len(lines))

BlankRows(text) ==
    SelectSeq(FromHeader(LinesOf(text)), LAMBDA line : IsBlank(line))

\* the text the reader has delivered so far
Delivered(r) == decode(0, SubSeq(r.input, 1, r.pos)).text

(***************************************************************************)
(* C9: in countRows, under every option setting, the blank lines before    *)
(* the first non-blank line are dropped: they do not add to the count and  *)
(* do not take the place of the header.                                    *)
(***************************************************************************)
C9_LeadingBlankLinesDropped ==
    \A i \in DOMAIN inv :
        /\ inv[i].op = "countRows"
        /\ IsBlank(Delivered(inv[i]))
        => inv[i].rowCount = 0 /\ inv[i].isFirstRow

(***************************************************************************)
(* C10: countRows counts every non-blank line after the header, counts     *)
(* the blank lines after the header exactly when countEmptyRows is true,   *)
(* and counts the header exactly when countHeaderRow is true.              *)
(***************************************************************************)
C10_CountByClass ==
    \A i \in DOMAIN inv :
        Returned(inv[i])
            => LET text == Text(inv[i].input)
               IN  inv[i].rowCount =
                       Len(DataLines(text))
                       + (IF inv[i].countEmptyRows THEN Len(BlankRows(text)) ELSE 0)
                       + (IF inv[i].countHeaderRow /\ NonBlankLines(text) # <<>>
                          THEN 1 ELSE 0)

(***************************************************************************)
(* What chunk is to put into its groups: the lines after the first         *)
(* non-blank line, trimmed; the blank ones only with includeEmptyRows.     *)
(***************************************************************************)
\* the lines after the first non-blank line
AfterHeader(text) ==
    IF FromHeader(LinesOf(text)) = <<>> THEN <<>>
    ELSE Tail(FromHeader(LinesOf(text)))

\* the rows that the lines after the header give
RowsAfterHeader(text, includeEmptyRows) ==
    LET kept == IF includeEmptyRows THEN AfterHeader(text)
                ELSE SelectSeq(AfterHeader(text), LAMBDA line : ~IsBlank(line))
    IN  [k \in 1..Len(kept) |-> Trimmed(kept[k])]

IsSuffix(p, rows) ==
    Len(p) <= Len(rows) /\ SubSeq(rows, Len(rows) - Len(p) + 1, Len(rows)) = p

(***************************************************************************)
(* C11: in chunk, a blank line after the header becomes an empty row of    *)
(* the group, counting toward chunkSize, when includeEmptyRows is true,    *)
(* and is left out when it is false; a non-blank line after the header     *)
(* always becomes a row.                                                   *)
(***************************************************************************)
C11_BlankRowsByFlag ==
    \A i \in DOMAIN inv :
        inv[i].op = "chunk" /\ inv[i].pc = "done"
            => /\ IsSuffix(RowsAfterHeader(Text(inv[i].input), inv[i].includeEmptyRows),
                           AllRows(inv[i].yielded))
               /\ \A b \in 1..(Len(inv[i].yielded) - 1) :
                     Len(RowsOf(inv[i].yielded[b])) = inv[i].chunkSize

\* chunk has ended after a block of an empty row and a non-empty row and a
\* second block: the blank line filled the first group
C11_Witness ==
    \E i \in DOMAIN inv :
        /\ inv[i].op = "chunk" /\ inv[i].pc = "done"
        /\ inv[i].includeEmptyRows
        /\ inv[i].chunkSize = 2
        /\ Len(inv[i].yielded) = 2
        /\ RowsOf(inv[i].yielded[1])[1] = <<>>
        /\ RowsOf(inv[i].yielded[1])[2] # <<>>
        /\ ~IsBlank(LinesOf(Text(inv[i].input))[1])

(***************************************************************************)
(* C12: in chunk with includeEmptyRows true, a blank line before the first *)
(* non-blank line is skipped when the header is looked for: the header is  *)
(* the first non-blank line, never the empty string.                       *)
(***************************************************************************)
C12_HeaderSkipsLeadingBlank ==
    \A i \in DOMAIN inv :
        inv[i].op = "chunk" /\ inv[i].includeEmptyRows /\ inv[i].header # NULL
            => /\ inv[i].header # <<>>
               /\ NonBlankLines(Text(inv[i].input)) # <<>>
               /\ inv[i].header = Trimmed(NonBlankLines(Text(inv[i].input))[1])

(***************************************************************************)
(* C13: under every configuration of chunk, an input without a non-blank   *)
(* line sets no header and yields no block.                                *)
(***************************************************************************)
C13_NoHeaderNoBlock ==
    \A i \in DOMAIN inv :
        inv[i].op = "chunk" /\ NonBlankLines(Text(inv[i].input)) = <<>>
            => inv[i].header = NULL /\ inv[i].yielded = <<>>

(***************************************************************************)
(* C15: under every configuration no block yielded by chunk ends with a    *)
(* line feed: a block is the header, a line feed and the rows joined by    *)
(* single line feeds, and trailing blank lines of the input are not rows.  *)
(***************************************************************************)
C15_NoTrailingLineFeed ==
    \A i \in DOMAIN inv :
        \A b \in 1..Len(inv[i].yielded) :
            /\ inv[i].yielded[b] # <<>>
            /\ inv[i].yielded[b][Len(inv[i].yielded[b])] # "\n"

\* the text is empty, or one non-blank line with or without a line feed
\* after it
HeaderOnly(text) ==
    /\ \A k \in 1..(Len(text) - 1) : text[k] # "\n"
    /\ text = <<>> \/ Len(NonBlankLines(text)) = 1

(***************************************************************************)
(* C14: on an empty input and on an input that is only a header line, with *)
(* or without a line feed after it, countRows with the default options     *)
(* returns 0 and chunk yields no block; and chunk never yields a block     *)
(* made of a header and zero rows.                                         *)
(***************************************************************************)
C14_HeaderOnlyGivesNothing ==
    \A i \in DOMAIN inv :
        /\ HeaderOnly(Text(inv[i].input))
              => /\ Returned(inv[i]) /\ Defaults(inv[i]) => inv[i].rowCount = 0
                 /\ inv[i].op = "chunk" => inv[i].yielded = <<>>
        /\ inv[i].op = "chunk" /\ inv[i].pc \in {"yield", "finalYield"}
              => /\ Len(inv[i].currentChunk) >= 1
                 /\ inv[i].header # NULL

\* both ended on the header line "a" followed by a line feed: the count is
\* 0 and no block was yielded, though the header was set
C14_Witness ==
    /\ DOMAIN inv = {1, 2}
    /\ inv[1].input = <<97, 10>>
    /\ Returned(inv[1]) /\ Defaults(inv[1]) /\ inv[1].rowCount = 0
    /\ inv[2].op = "chunk" /\ inv[2].pc = "done"
    /\ inv[2].header = <<"a">> /\ inv[2].yielded = <<>>

\* the invocation has left the pipeline: countRows settled, or the generator
\* of chunk completed
Exited(r) == r.pc \in {"returned", "rejected", "done", "threw", "stopped", "exhausted"}

(***************************************************************************)
(* C16: the reader is released on every exit path: when countRows or chunk *)
(* completes, when the consumer of chunk stops early, and when a read      *)
(* fails, in which case it is released by the time the error reaches the   *)
(* caller.                                                                 *)
(***************************************************************************)
C16_ReaderReleasedOnExit ==
    \A i \in DOMAIN inv : Exited(inv[i]) => inv[i].released

(***************************************************************************)
(* C17: a failed read propagates at once and is not retried: from the step *)
(* in which the read fails on, no further byte is read and no block is     *)
(* yielded; countRows is rejected and never returns a count; chunk throws  *)
(* at the pull during which the read failed, the blocks yielded before     *)
(* stay as they were, and later pulls find the generator completed.        *)
(***************************************************************************)
C17_ReadErrorPropagates ==
    [][\A i \in DOMAIN inv :
          /\ inv[i].failed => inv'[i].failed
          /\ inv'[i].failed
                => /\ inv'[i].pos = inv[i].pos
                   /\ inv'[i].yielded = inv[i].yielded
                   /\ inv'[i].pc \in (IF inv[i].op = "countRows"
                                      THEN {"rejected"}
                                      ELSE {"threw", "exhausted"})]_vars

\* chunk failed in the middle of its input after it had yielded a block, and
\* was pulled again after the error
C17_Witness ==
    \E i \in DOMAIN inv :
        /\ inv[i].op = "chunk" /\ inv[i].failed /\ inv[i].pc = "exhausted"
        /\ Len(inv[i].yielded) >= 1
        /\ inv[i].pos < Len(inv[i].input)

\* the step is the one that processes end-of-input
EndOfInput(r, after) ==
    r.pc = "read" /\ after.pc \in {"returned", "finalYield", "done"}

\* what the newline loop makes of the buffer taken as one complete line
countAsLine(r) ==
    countLines(r.buffer \o <<"\n">>, r.rowCount, r.isFirstRow,
               r.countHeaderRow, r.countEmptyRows)

chunkAsLine(r) ==
    chunkLines(r.buffer \o <<"\n">>, r.header, r.currentChunk,
               r.chunkSize, r.includeEmptyRows)

(***************************************************************************)
(* C18: at end-of-input, in countRows and in chunk, the leftover buffer is *)
(* one final line if and only if it is not empty, white space counted, and *)
(* that line is classified as the newline loop classifies a line: an       *)
(* unterminated last data row is counted or emitted once, an empty buffer  *)
(* adds nothing, and a fragment of white space only is a blank line, which *)
(* countRows counts only with countEmptyRows and chunk emits only with     *)
(* includeEmptyRows.                                                       *)
(***************************************************************************)
C18_FlushIsOneLastLine ==
    [][\A i \in DOMAIN inv :
          EndOfInput(inv[i], inv'[i])
              => LET r == inv[i]
                     after == inv'[i]
                     blank == trim(r.buffer) = <<>>
                 IN  IF r.op = "countRows"
                     THEN /\ r.buffer = <<>> => after.rowCount = r.rowCount
                          /\ r.buffer # <<>>
                                => after.rowCount = countAsLine(r).rowCount
                          /\ blank /\ ~r.countEmptyRows
                                => after.rowCount = r.rowCount
                          /\ ~blank /\ ~r.isFirstRow
                                => after.rowCount = r.rowCount + 1
                     ELSE /\ r.buffer = <<>>
                                => /\ after.header = r.header
                                   /\ after.currentChunk = r.currentChunk
                          /\ r.buffer # <<>>
                                => /\ after.header = chunkAsLine(r).header
                                   /\ after.currentChunk = chunkAsLine(r).currentChunk
                          /\ blank /\ ~r.includeEmptyRows
                                => /\ after.header = r.header
                                   /\ after.currentChunk = r.currentChunk
                          /\ ~blank /\ r.header # NULL
                                => /\ after.currentChunk
                                         = Append(r.currentChunk, trim(r.buffer))
                                   /\ after.pc = "finalYield"
                                   /\ after.yielded
                                         = Append(r.yielded,
                                                  blockText(r.header, after.currentChunk))]_vars

\* countRows returned 1 for "a", line feed, "b ": the last row had no line
\* feed after it and was counted by the flush
C18_Witness ==
    \E i \in DOMAIN inv :
        /\ Returned(inv[i]) /\ Defaults(inv[i])
        /\ inv[i].input = <<97, 10, 98, 32>>
        /\ inv[i].buffer = <<"b", " ">>
        /\ inv[i].rowCount = 1

\* the text holds a line feed
HasLineFeed(text) == \E k \in 1..Len(text) : text[k] = "\n"

(***************************************************************************)
(* C19: whenever countRows or chunk waits for the next raw chunk, and so   *)
(* when end-of-input is processed, the line buffer holds no line feed:     *)
(* every complete line was extracted, the buffer is the one partial line.  *)
(***************************************************************************)
C19_NoLineFeedWhileReading ==
    \A i \in DOMAIN inv :
        inv[i].pc = "read" => ~HasLineFeed(inv[i].buffer)

\* chunk waits for the next raw chunk after it has yielded a block, with a
\* partial line in its buffer
C19_Witness ==
    \E i \in DOMAIN inv :
        /\ inv[i].op = "chunk" /\ inv[i].pc = "read"
        /\ Len(inv[i].yielded) >= 1
        /\ inv[i].buffer # <<>>

(***************************************************************************)
(* C20: for every chunkSize the group of chunk never holds more than       *)
(* chunkSize rows; it is yielded at the step in which it reaches chunkSize *)
(* and is reset before the generator goes on, so it holds fewer than       *)
(* chunkSize rows whenever the generator waits for the next raw chunk; the *)
(* row the end-of-input flush appends brings it to chunkSize at most.      *)
(***************************************************************************)
C20_GroupWithinChunkSize ==
    \A i \in DOMAIN inv :
        inv[i].op = "chunk"
            => /\ Len(inv[i].currentChunk) <= inv[i].chunkSize
               /\ inv[i].pc \in {"start", "read"}
                     => Len(inv[i].currentChunk) < inv[i].chunkSize
               /\ inv[i].pc = "yield"
                     => /\ Len(inv[i].currentChunk) = inv[i].chunkSize
                        /\ inv[i].yielded[Len(inv[i].yielded)]
                              = blockText(inv[i].header, inv[i].currentChunk)

\* the flush appended the unterminated last row to a group of chunkSize - 1
\* rows, and the group of chunkSize rows is at the final yield
C20_Witness ==
    \E i \in DOMAIN inv :
        /\ inv[i].op = "chunk" /\ inv[i].pc = "finalYield"
        /\ inv[i].chunkSize = 2 /\ Len(inv[i].currentChunk) = 2
        /\ inv[i].input # <<>> /\ inv[i].input[Len(inv[i].input)] # 10
        /\ Len(inv[i].yielded) = 2

\* the complete lines of a buffer: its pieces between line feeds without
\* the last one, which no line feed ends
CompleteLines(buffer) ==
    SubSeq(SplitAtLf(buffer), 1, Len(SplitAtLf(buffer)) - 1)

\* the rows the complete lines of a buffer give after the header
RowsInBuffer(buffer, includeEmptyRows) ==
    LET kept == IF includeEmptyRows THEN CompleteLines(buffer)
                ELSE SelectSeq(CompleteLines(buffer), LAMBDA line : ~IsBlank(line))
    IN  [k \in 1..Len(kept) |-> Trimmed(kept[k])]

(***************************************************************************)
(* C21: yielding a block resets the group and nothing else: the header and *)
(* the rest of the line buffer are kept, so when the consumer resumes the  *)
(* generator the lines that followed in the same raw chunk go into the     *)
(* next group, under the same header.                                      *)
(***************************************************************************)
C21_YieldKeepsHeaderAndBuffer ==
    [][\A i \in DOMAIN inv :
          inv[i].pc = "yield" /\ inv'[i].pc \in {"yield", "read"}
              => LET r == inv[i]
                     after == inv'[i]
                     rows == RowsInBuffer(r.buffer, r.includeEmptyRows)
                 IN  /\ after.header = r.header
                     /\ IF Len(rows) >= r.chunkSize
                        THEN /\ after.pc = "yield"
                             /\ after.currentChunk = SubSeq(rows, 1, r.chunkSize)
                             /\ after.yielded
                                   = Append(r.yielded,
                                            r.header \o <<"\n">>
                                               \o join(after.currentChunk, "\n"))
                             /\ IsSuffix(after.buffer, r.buffer)
                        ELSE /\ after.pc = "read"
                             /\ after.currentChunk = rows
                             /\ after.yielded = r.yielded
                             /\ after.buffer
                                   = SplitAtLf(r.buffer)[Len(SplitAtLf(r.buffer))]]_vars

\* the input holds the header and three empty rows; with chunkSize 2 the
\* first two were yielded, and after the resume the third is in the next
\* group and the unterminated rest is in the buffer
C21_Witness ==
    \E i \in DOMAIN inv :
        /\ inv[i].op = "chunk" /\ inv[i].pc = "read"
        /\ inv[i].input = <<97, 10, 10, 10, 10, 98>>
        /\ inv[i].chunkSize = 2 /\ inv[i].includeEmptyRows
        /\ inv[i].yielded = << <<"a", "\n", "\n">> >>
        /\ inv[i].header = <<"a">>
        /\ inv[i].currentChunk = << <<>> >>
        /\ inv[i].buffer = <<"b">>
\* the generator of chunk is suspended: no next() of the consumer is pending
Suspended(r) == r.op = "chunk" /\ r.pc \in {"start", "yield", "finalYield"}

(***************************************************************************)
(* C22: chunk is pull-driven: it reads from the reader only while a next() *)
(* of the consumer waits for a block.  While the generator is suspended,   *)
(* before the first pull and after each yielded block, no read can happen  *)
(* and no byte is taken from the reader; a step yields at most one block,  *)
(* and the generator is suspended right after it, so no block is produced  *)
(* beyond the one the pending pull asked for.                              *)
(***************************************************************************)
C22_PullDriven ==
    [][\A i \in DOMAIN inv :
          inv[i].op = "chunk"
              => /\ Suspended(inv[i])
                       => /\ ~ENABLED ChunkRead(i)
                          /\ ~ENABLED ChunkDone(i)
                          /\ ~ENABLED ChunkReadError(i)
                          /\ inv'[i].pos = inv[i].pos
                 /\ inv'[i].yielded # inv[i].yielded
                       => /\ ~Suspended(inv[i]) \/ inv[i].pc = "yield"
                          /\ inv'[i].yielded
                                = Append(inv[i].yielded,
                                         inv'[i].yielded[Len(inv'[i].yielded)])
                          /\ Suspended(inv'[i])]_vars

\* a block was yielded and the generator is suspended while the reader
\* still holds bytes that were not read
C22_Witness ==
    \E i \in DOMAIN inv :
        /\ inv[i].op = "chunk" /\ inv[i].pc = "yield"
        /\ Len(inv[i].yielded) = 1
        /\ inv[i].pos < Len(inv[i].input)

\* the sequence of chunk has ended: after the end-of-input flush, after an
\* error, or because the consumer stopped
Ended(r) == r.op = "chunk" /\ r.pc \in {"done", "threw", "stopped", "exhausted"}

\* end-of-input has been processed
Flushed(r) == r.op = "chunk" /\ r.pc \in {"finalYield", "done"}

(***************************************************************************)
(* C23: the ended state of the sequence of chunk is terminal.  Once it has *)
(* ended, by the end of input, by an error or by the consumer's stop, no   *)
(* read can happen and a later pull yields no block and leaves it ended.   *)
(* The end-of-input flush runs once: after it the generator never reads    *)
(* again, and it yields one final block at most.  When the consumer stops  *)
(* early, what the group and the buffer hold is not yielded.               *)
(***************************************************************************)
C23_EndIsTerminal ==
    [][\A i \in DOMAIN inv :
          inv[i].op = "chunk"
              => /\ Ended(inv[i])
                       => /\ Ended(inv'[i])
                          /\ inv'[i].yielded = inv[i].yielded
                          /\ inv'[i].pos = inv[i].pos
                          /\ ~ENABLED ChunkRead(i)
                          /\ ~ENABLED ChunkDone(i)
                          /\ ~ENABLED ChunkResume(i)
                 /\ Flushed(inv[i])
                       => /\ Flushed(inv'[i]) \/ inv'[i].pc = "stopped"
                          /\ inv'[i].yielded = inv[i].yielded
                 /\ inv[i].pc = "read" /\ Flushed(inv'[i])
                       => Len(inv'[i].yielded) <= Len(inv[i].yielded) + 1
                 /\ inv'[i].pc = "stopped"
                       => inv'[i].yielded = inv[i].yielded]_vars

\* the consumer stopped after the first block, when the whole input had
\* been read and a row was still in the buffer: the row is not yielded
C23_Witness ==
    \E i \in DOMAIN inv :
        /\ inv[i].op = "chunk" /\ inv[i].pc = "stopped"
        /\ Len(inv[i].yielded) = 1
        /\ inv[i].pos = Len(inv[i].input)
        /\ ~IsBlank(inv[i].buffer)

(***************************************************************************)
(* C24: on a reader that delivers finitely many values and then the end of *)
(* input, under fair scheduling, countRows eventually returns its count,   *)
(* and chunk, when the consumer keeps pulling, eventually ends, having     *)
(* yielded finitely many blocks: no more than the input has lines.         *)
(***************************************************************************)
C24_Terminates ==
    <>[](\A i \in DOMAIN inv :
            /\ Finished(inv[i])
            /\ Len(inv[i].yielded) <= Len(LinesOf(Text(inv[i].input))))

\* chunk ended after it had yielded two blocks
C24_Witness ==
    \E i \in DOMAIN inv :
        /\ inv[i].op = "chunk" /\ inv[i].pc = "done"
        /\ Len(inv[i].yielded) = 2
        /\ inv[i].chunkSize = 1

\* the states an invocation can step to when it runs alone
StepsAlone(r) ==
    LET values == {NextBytes(r, n) : n \in 0..(Len(r.input) - r.pos)}
        atEnd == r.pos = Len(r.input)
    IN  IF r.op = "countRows"
        THEN IF r.pc # "read" THEN {}
             ELSE {countRowsOnValue(r, value) : value \in values}
                  \cup (IF atEnd THEN {countRowsOnDone(r)} ELSE {})
        ELSE CASE r.pc = "start" -> {[r EXCEPT !.pc = "read"]}
               [] r.pc = "read" -> {chunkOnValue(r, value) : value \in values}
                                   \cup (IF atEnd THEN {chunkOnDone(r)} ELSE {})
               [] r.pc = "yield" -> {chunkOnResume(r)}
               [] r.pc = "finalYield" -> {[r EXCEPT !.pc = "done"]}
               [] OTHER -> {}

(***************************************************************************)
(* C25: invocations that run at the same time do not interfere.  With the  *)
(* steps of two invocations, each on its own reader, interleaved in any    *)
(* order, a step of one leaves the other as it was and is a step the       *)
(* invocation takes when it runs alone, and each ends with the result it   *)
(* gives alone: the buffer, the header, the count and the group belong to  *)
(* one invocation.                                                         *)
(***************************************************************************)
C25_NoInterference ==
    [][\A i \in DOMAIN inv :
          /\ inv'[i] # inv[i]
                => /\ inv'[i] \in StepsAlone(inv[i])
                   /\ \A j \in DOMAIN inv \ {i} : inv'[j] = inv[j]
          /\ Finished(inv'[i])
                => /\ inv'[i].rowCount = OneChunkRun(inv'[i]).rowCount
                   /\ inv'[i].yielded = OneChunkRun(inv'[i]).yielded]_vars

\* countRows holds the start of a line in its buffer, between two of its
\* reads, while chunk, on another input, has yielded a block
C25_Witness ==
    /\ DOMAIN inv = {1, 2}
    /\ inv[1].op = "countRows" /\ inv[1].pc = "read"
    /\ inv[1].buffer = <<"a">> /\ inv[1].pos < Len(inv[1].input)
    /\ inv[2].op = "chunk" /\ inv[2].pc = "yield"
    /\ inv[2].input # inv[1].input

\* the line neither starts nor ends with a carriage return
NoCrAtEnds(line) == line = <<>> \/ (Head(line) # "\r" /\ line[Len(line)] # "\r")

(***************************************************************************)
(* C26: an input with CRLF line endings gives the count and the blocks of  *)
(* the same input with LF line endings: the line feed alone ends a line,   *)
(* trimming removes the carriage return, a line that is only a carriage    *)
(* return is blank, and no line of a yielded block starts or ends with a   *)
(* carriage return.                                                        *)
(***************************************************************************)
C26_CrLfAsLf ==
    /\ Finished(inv[1]) /\ Finished(inv[2])
          => /\ inv[2].rowCount = inv[1].rowCount
             /\ inv[2].yielded = inv[1].yielded
    /\ \A i \in DOMAIN inv :
          \A b \in 1..Len(inv[i].yielded) :
             \A k \in 1..Len(SplitAtLf(inv[i].yielded[b])) :
                NoCrAtEnds(SplitAtLf(inv[i].yielded[b])[k])

\* chunk ended on "a", CRLF, CRLF, "a": the line that is only a carriage
\* return was skipped, and the one block is the block of the LF form
C26_Witness ==
    /\ inv[2].op = "chunk" /\ ~inv[2].includeEmptyRows
    /\ inv[2].input = <<97, 13, 10, 13, 10, 97>>
    /\ inv[1].pc = "done" /\ inv[2].pc = "done"
    /\ inv[2].yielded = << <<"a", "\n", "a">> >>
    /\ inv[1].yielded = inv[2].yielded

\* the text of the lines taken out of the buffer so far
ConsumedText(r) == SubSeq(Delivered(r), 1, Len(Delivered(r)) - Len(r.buffer))

\* the rows of the lines taken out of the buffer so far: the lines the
\* empty-row flag keeps, trimmed, without the first, which is the header
RowsSoFar(r) ==
    LET lines == LinesOf(ConsumedText(r))
        kept == IF r.includeEmptyRows THEN lines
                ELSE SelectSeq(lines, LAMBDA line : ~IsBlank(line))
    IN  [k \in 1..(Len(kept) - 1) |-> Trimmed(kept[k + 1])]

(***************************************************************************)
(* C27: with a chunkSize that is zero or negative chunk raises no error    *)
(* and yields nothing while input arrives, because the length of the group *)
(* never equals chunkSize; the group takes every row, however many, and at *)
(* end-of-input all the rows are yielded in one block, when there is a row *)
(* at all.                                                                 *)
(***************************************************************************)
C27_NonPositiveChunkSize ==
    \A i \in DOMAIN inv :
        inv[i].op = "chunk" /\ inv[i].chunkSize <= 0
            => /\ inv[i].pc \in {"start", "read", "finalYield", "done"}
               /\ inv[i].pc \in {"start", "read"}
                     => /\ inv[i].yielded = <<>>
                        /\ inv[i].currentChunk = RowsSoFar(inv[i])
               /\ inv[i].pc \in {"finalYield", "done"}
                     => /\ IsSuffix(RowsAfterHeader(Text(inv[i].input),
                                                    inv[i].includeEmptyRows),
                                    inv[i].currentChunk)
                        /\ ~inv[i].includeEmptyRows
                              => inv[i].currentChunk
                                    = RowsAfterHeader(Text(inv[i].input), FALSE)
                        /\ inv[i].yielded
                              = IF inv[i].currentChunk = <<>> THEN <<>>
                                ELSE <<inv[i].header \o <<"\n">>
                                          \o join(inv[i].currentChunk, "\n")>>

\* chunk with chunkSize 0 ended on a header and two rows: nothing was
\* yielded at the first row, and one block holds the two rows
C27_Witness ==
    \E i \in DOMAIN inv :
        /\ inv[i].op = "chunk" /\ inv[i].chunkSize = 0 /\ inv[i].pc = "done"
        /\ inv[i].input = <<97, 10, 98, 10, 98>>
        /\ inv[i].yielded = << <<"a", "\n", "b", "\n", "b">> >>
====
